---------------------------- MODULE Spec2Model ----------------------------
(***************************************************************************)
(* Receipt processor (src/main.go): ReadReceipt, the validation-and-scoring *)
(* pass, and the three routes of setupRouter over the process-wide map db.  *)
(*                                                                          *)
(* Text is a sequence of one-character strings.  Amounts are decimal texts  *)
(* with at most three fractional digits whose values are multiples of       *)
(* 0.125; float64 arithmetic on such values is exact, so an amount is kept  *)
(* as an integer number of thousandths.                                     *)
(***************************************************************************)
EXTENDS Integers, Sequences, FiniteSets, TLC

VARIABLES db, issued, last, receipt, result, pc, req, raced, crashed, answered

vars == <<db, issued, last, receipt, result, pc, req, raced, crashed, answered>>

(***************************************************************************)
(* Text helpers                                                             *)
(***************************************************************************)
Digit == {"0", "1", "2", "3", "4", "5", "6", "7", "8", "9"}

DigitVal(c) ==
    CASE c = "0" -> 0 [] c = "1" -> 1 [] c = "2" -> 2 [] c = "3" -> 3
      [] c = "4" -> 4 [] c = "5" -> 5 [] c = "6" -> 6 [] c = "7" -> 7
      [] c = "8" -> 8 [] c = "9" -> 9

Letter ==
    {"a", "b", "c", "d", "e", "f", "g", "h", "i", "j", "k", "l", "m",
     "n", "o", "p", "q", "r", "s", "t", "u", "v", "w", "x", "y", "z",
     "A", "B", "C", "D", "E", "F", "G", "H", "I", "J", "K", "L", "M",
     "N", "O", "P", "Q", "R", "S", "T", "U", "V", "W", "X", "Y", "Z"}

AllDigits(s) == \A k \in 1..Len(s) : s[k] \in Digit

RECURSIVE DigitsVal(_)
DigitsVal(s) ==
    IF Len(s) = 0 THEN 0
    ELSE 10 * DigitsVal(SubSeq(s, 1, Len(s) - 1)) + DigitVal(s[Len(s)])

RECURSIVE Pow10(_)
Pow10(n) == IF n = 0 THEN 1 ELSE 10 * Pow10(n - 1)

\* Go's integer remainder and float-to-int conversion truncate toward zero.
GoRem(a, b) == IF a >= 0 THEN a % b ELSE -((-a) % b)

GoQuot(a, b) == IF a >= 0 THEN a \div b ELSE -((-a) \div b)

\* strconv.Atoi with the error dropped: optional sign, then one or more
\* decimal digits; 0 for anything else.
Atoi(s) ==
    LET signed == Len(s) > 0 /\ s[1] \in {"+", "-"}
        body   == IF signed THEN Tail(s) ELSE s
    IN  IF Len(body) = 0 \/ ~AllDigits(body) THEN 0
        ELSE IF signed /\ s[1] = "-" THEN -DigitsVal(body)
        ELSE DigitsVal(body)

\* strconv.ParseFloat(s, 64) with the error dropped, in thousandths:
\* optional sign, digits, optional point and digits, at least one digit;
\* 0 for anything else.  Exponents, hexadecimal forms, "inf" and "nan" are
\* outside the texts the inputs below are drawn from.
ParseFloat(s) ==
    LET signed == Len(s) > 0 /\ s[1] \in {"+", "-"}
        body   == IF signed THEN Tail(s) ELSE s
        dots   == {k \in 1..Len(body) : body[k] = "."}
        dot    == IF dots = {} THEN Len(body) + 1
                  ELSE CHOOSE k \in dots : \A m \in dots : k <= m
        whole  == SubSeq(body, 1, dot - 1)
        frac   == SubSeq(body, dot + 1, Len(body))
        ok     == /\ Cardinality(dots) <= 1
                  /\ AllDigits(whole) /\ AllDigits(frac)
                  /\ Len(whole) + Len(frac) >= 1
                  /\ Len(frac) <= 3
        mag    == DigitsVal(whole) * 1000 + DigitsVal(frac) * Pow10(3 - Len(frac))
    IN  IF ~ok THEN 0
        ELSE IF signed /\ s[1] = "-" THEN -mag ELSE mag

\* math.Mod(x, y) for amounts in thousandths: the result has the sign of x.
MathMod(x, y) == GoRem(x, y)

(***************************************************************************)
(* The checks of ReadReceipt                                                *)
(***************************************************************************)
\* regexp `^[0-9]{4}-[0-1][1-9]-[0-2][0-9]` (no end anchor)
isdate(s) ==
    /\ Len(s) >= 10
    /\ \A k \in 1..4 : s[k] \in Digit
    /\ s[5] = "-"
    /\ s[6] \in {"0", "1"}
    /\ s[7] \in Digit \ {"0"}
    /\ s[8] = "-"
    /\ s[9] \in {"0", "1", "2"}
    /\ s[10] \in Digit

\* regexp `^[0-2][0-9]:[0-5][0-9]` (no end anchor)
istime(s) ==
    /\ Len(s) >= 5
    /\ s[1] \in {"0", "1", "2"}
    /\ s[2] \in Digit
    /\ s[3] = ":"
    /\ s[4] \in {"0", "1", "2", "3", "4", "5"}
    /\ s[5] \in Digit

\* regexp `^[a-zA-Z0-9]*$` applied to one character of the retailer
isalpha(c) == c \in Letter \cup Digit

(***************************************************************************)
(* The scoring rules of ReadReceipt, one operator per rule                  *)
(***************************************************************************)
\* 50 points if the total is a round dollar amount
RoundDollarPoints(total) == IF MathMod(total, 1000) = 0 THEN 50 ELSE 0

\* 25 points if the total is a multiple of 0.25
QuarterPoints(total) == IF MathMod(total, 250) = 0 THEN 25 ELSE 0

\* one point per alphanumeric character of the retailer name
RetailerPoints(name) == Cardinality({k \in 1..Len(name) : isalpha(name[k])})

\* points += (items / 2)
ItemPairPoints(items) == Len(items) \div 2

\* if len(desc)%3 == 0: price = price + (1 - math.Mod(price, 1)); int(price)
DescPoints(item) ==
    IF Len(item.ShortDescription) % 3 = 0
    THEN LET price  == ParseFloat(item.Price)
             bumped == price + (1000 - MathMod(price, 1000))
         IN  GoQuot(bumped, 1000)
    ELSE 0

\* the odd-day rule with a remainder that is never negative
OddDayPointsFlooredMod(date) ==
    LET day == SubSeq(date, Len(date) - 1, Len(date))
    IN  IF Atoi(day) % 2 = 1 THEN 6 ELSE 0

\* day := PurchaseDate[len-2:]; dayint%2 == 1 (evaluated inside the item loop)
OddDayPoints(date) ==
    LET day == SubSeq(date, Len(date) - 1, Len(date))
    IN  IF GoRem(Atoi(day), 2) = 1 THEN 6 ELSE 0

\* time := PurchaseTime[:2]; 14 <= timeint && timeint < 16 (inside the item loop)
AfternoonPoints(time) ==
    LET timeint == Atoi(SubSeq(time, 1, 2))
    IN  IF 14 <= timeint /\ timeint < 16 THEN 10 ELSE 0

\* The slice expressions of the item loop panic on a text shorter than two
\* bytes; the loop body runs only when there is an item.
Panics(r) ==
    /\ Len(r.Items) > 0
    /\ (Len(r.PurchaseDate) < 2 \/ Len(r.PurchaseTime) < 2)

RECURSIVE SumOver(_, _)
SumOver(f, n) == IF n = 0 THEN 0 ELSE SumOver(f, n - 1) + f[n]

\* total after `total -= itemPrice` for every item
Remainder(r) ==
    ParseFloat(r.Total)
      - SumOver([k \in 1..Len(r.Items) |-> ParseFloat(r.Items[k].Price)], Len(r.Items))

\* the messages joined onto the inner err, in the order of the code
Failures(r) ==
    (IF isdate(r.PurchaseDate) THEN <<>> ELSE <<"invalid Purchase Date Format ">>)
      \o (IF istime(r.PurchaseTime) THEN <<>> ELSE <<"invalid Purchase Time Format ">>)
      \o (IF Remainder(r) # 0 THEN <<"total Price does not match item prices ">> ELSE <<>>)

\* what each rule adds to points, over the whole pass
Breakdown(r) ==
    LET n == Len(r.Items)
    IN  [round     |-> RoundDollarPoints(ParseFloat(r.Total)),
         quarter   |-> QuarterPoints(ParseFloat(r.Total)),
         retailer  |-> RetailerPoints(r.Retailer),
         pair      |-> ItemPairPoints(r.Items),
         desc      |-> [k \in 1..n |-> DescPoints(r.Items[k])],
         oddDay    |-> SumOver([k \in 1..n |-> OddDayPoints(r.PurchaseDate)], n),
         afternoon |-> SumOver([k \in 1..n |-> AfternoonPoints(r.PurchaseTime)], n)]

Points(r) ==
    LET b == Breakdown(r)
    IN  b.round + b.quarter + b.retailer + b.pair
          + SumOver(b.desc, Len(r.Items)) + b.oddDay + b.afternoon

\* a request body json.Decode rejects
Undecodable ==
    [decoded |-> FALSE, Retailer |-> <<>>, PurchaseDate |-> <<>>,
     PurchaseTime |-> <<>>, Items |-> <<>>, Total |-> <<>>]

NoBreakdown ==
    [round |-> 0, quarter |-> 0, retailer |-> 0, pair |-> 0, desc |-> <<>>,
     oddDay |-> 0, afternoon |-> 0]

\* ReadReceipt: outcome "panic" when a slice expression panics; otherwise
\* err is the err the function returns, the outer one of line 42, which the
\* validation branch never assigns (its err of line 46 is a new variable);
\* inner is that inner err's list of messages.
ReadReceipt(body) ==
    IF ~body.decoded
    THEN [outcome |-> "return", err |-> "decode", inner |-> <<>>, points |-> 0,
          rules |-> NoBreakdown]
    ELSE IF Panics(body)
    THEN [outcome |-> "panic", err |-> "nil", inner |-> <<>>, points |-> 0,
          rules |-> NoBreakdown]
    ELSE [outcome |-> "return", err |-> "nil", inner |-> Failures(body),
          points |-> Points(body), rules |-> Breakdown(body)]

(***************************************************************************)
(* Bounded inputs                                                           *)
(***************************************************************************)
MaxItems == 2

Retailers == {<<>>, <<"M", "&", "M", " ", "C", "o">>}

\* well-formed odd and even days, a month the pattern refuses, a well-formed
\* prefix followed by "-1", and a one-character text
Dates == {<<"2", "0", "2", "2", "-", "0", "1", "-", "0", "1">>, <<"2", "0", "2", "2", "-", "0", "1", "-", "0", "2">>, <<"2", "0", "2", "2", "-", "1", "0", "-", "0", "1">>, <<"2", "0", "2", "2", "-", "0", "1", "-", "0", "2", "-", "1">>, <<"7">>}

Times == {<<"1", "4", ":", "3", "0">>, <<"1", "5", ":", "5", "9">>, <<"1", "6", ":", "0", "0">>, <<"9">>}

Descriptions == {<<>>, <<"a", "b">>, <<"a", "b", "c">>}

Prices == {<<"2">>, <<"0", ".", "1", "2", "5">>, <<"-", "2", ".", "1", "2", "5">>, <<"x">>}

Totals == {<<"2">>, <<"-", "2", ".", "1", "2", "5">>, <<"x">>, <<"4">>}

ItemKinds == [ShortDescription : Descriptions, Price : Prices]

RECURSIVE SeqsUpTo(_, _)
SeqsUpTo(S, n) ==
    IF n = 0 THEN {<<>>}
    ELSE LET shorter == SeqsUpTo(S, n - 1)
         IN  shorter \cup {Append(q, x) : q \in {t \in shorter : Len(t) = n - 1}, x \in S}

Receipts ==
    [decoded : {TRUE}, Retailer : Retailers, PurchaseDate : Dates,
     PurchaseTime : Times, Items : SeqsUpTo(ItemKinds, MaxItems), Total : Totals]

NoResult ==
    [outcome |-> "none", err |-> "nil", inner |-> <<>>, points |-> 0,
     rules |-> NoBreakdown]

NoLast ==
    [op |-> "none", body |-> Undecodable, uuid |-> 0, status |-> 0,
     msg |-> <<>>, points |-> 0]

(***************************************************************************)
(* SpecScore: ReadReceipt applied to one decoded receipt                    *)
(***************************************************************************)
InitScore ==
    /\ receipt \in Receipts
    /\ result = NoResult
    /\ db = <<>> /\ issued = {} /\ last = NoLast
    /\ pc = <<>> /\ req = <<>> /\ raced = <<>> /\ crashed = FALSE /\ answered = {}

Score ==
    /\ result.outcome = "none"
    /\ result' = ReadReceipt(receipt)
    /\ UNCHANGED <<db, issued, last, receipt, pc, req, raced, crashed, answered>>

NextScore == Score

SpecScore == InitScore /\ [][NextScore]_vars

\* ReadReceipt returned with a nil error: the receipt is scored and accepted
Scored == result.outcome = "return" /\ result.err = "nil"

(***************************************************************************)
(* Spec: the routes of setupRouter, one request handled at a time           *)
(***************************************************************************)
MaxIds == 2

\* the identifiers shortuuid.New() can return
IDs == 1..MaxIds

Bodies ==
    [decoded : {TRUE}, Retailer : Retailers,
     PurchaseDate : {<<"2", "0", "2", "2", "-", "0", "1", "-", "0", "1">>, <<"2", "0", "2", "2", "-", "1", "0", "-", "0", "1">>, <<"7">>},
     PurchaseTime : {<<"1", "4", ":", "3", "0">>},
     Items : {<<>>, <<[ShortDescription |-> <<>>, Price |-> <<"2">>]>>},
     Total : {<<"2">>}]
      \cup {Undecodable}

\* the value written to db: the decoded receipt with `receipt.Points = points`
StoredWithoutPoints(body, r) == [receipt |-> body, Points |-> 0]

Stored(body, r) == [receipt |-> body, Points |-> r.points]

\* shortuuid.New(): a random identifier, taken to differ from every one
\* handed out before
NewUuids(used) == IDs \ used

Init ==
    /\ db = <<>> /\ issued = {} /\ last = NoLast
    /\ receipt = Undecodable /\ result = NoResult
    /\ pc = <<>> /\ req = <<>> /\ raced = <<>> /\ crashed = FALSE /\ answered = {}

\* POST /receipts/process.  A panic in ReadReceipt is not recovered by the
\* router (gin.New() installs no recovery), so the connection is dropped
\* without a response: status 0.
PostReceiptsProcess(body) ==
    \E r \in {ReadReceipt(body)} :
        /\ \/ /\ r.outcome = "panic"
              /\ last' = [op |-> "process", body |-> body, uuid |-> 0, status |-> 0,
                          msg |-> <<>>, points |-> 0]
              /\ UNCHANGED <<db, issued>>
           \/ /\ r.outcome = "return" /\ r.err = "nil"
              /\ \E uuid \in NewUuids(DOMAIN db) :
                    /\ db' = db @@ (uuid :> Stored(body, r))
                    /\ issued' = issued \cup {<<uuid, r.points>>}
                    /\ last' = [op |-> "process", body |-> body, uuid |-> uuid,
                                status |-> 200, msg |-> <<>>, points |-> 0]
           \/ /\ r.outcome = "return" /\ r.err # "nil"
              /\ last' = [op |-> "process", body |-> body, uuid |-> 0, status |-> 400,
                          msg |-> <<r.err>>, points |-> 0]
              /\ UNCHANGED <<db, issued>>
        /\ UNCHANGED <<receipt, result, pc, req, raced, crashed, answered>>

\* GET /receipts/:id/points (binding the :id segment to a string cannot fail)
GetReceiptsPoints(id) ==
    /\ last' = IF id \in DOMAIN db
               THEN [op |-> "points", body |-> Undecodable, uuid |-> id, status |-> 200,
                     msg |-> <<>>, points |-> db[id].Points]
               ELSE [op |-> "points", body |-> Undecodable, uuid |-> id, status |-> 400,
                     msg |-> <<"That receipt does not exist.">>, points |-> 0]
    /\ UNCHANGED <<db, issued, receipt, result, pc, req, raced, crashed, answered>>

\* GET /db
GetDb ==
    /\ last' = [op |-> "db", body |-> Undecodable, uuid |-> 0, status |-> 200,
                msg |-> <<>>, points |-> 0]
    /\ UNCHANGED <<db, issued, receipt, result, pc, req, raced, crashed, answered>>

Next ==
    \/ \E body \in Bodies : PostReceiptsProcess(body)
    \/ \E id \in IDs : GetReceiptsPoints(id)
    \/ GetDb

Spec == Init /\ [][Next]_vars

(***************************************************************************)
(* Claims about the scoring rules, checked under SpecScore                  *)
(***************************************************************************)
\* C5: for every accepted receipt whose checks all pass (negative and zero
\* prices included), the points are non-negative and so is the contribution
\* of every scoring rule.
C5_PointsNonNegative ==
    (Scored /\ result.inner = <<>>) =>
        /\ result.points >= 0
        /\ result.rules.round >= 0 /\ result.rules.quarter >= 0
        /\ result.rules.retailer >= 0 /\ result.rules.pair >= 0
        /\ result.rules.oddDay >= 0 /\ result.rules.afternoon >= 0
        /\ \A k \in 1..Len(receipt.Items) : result.rules.desc[k] >= 0

\* C7: the item-pair rule contributes floor(itemCount / 2) * 5 points to
\* every scored receipt.
C7_PairRuleFivePerTwoItems ==
    Scored => result.rules.pair = (Len(receipt.Items) \div 2) * 5

\* C9: an item whose description length is a multiple of 3 and whose price
\* is non-negative contributes floor(price) + 1 when the price has a
\* fractional part and exactly price when it has none; an item whose
\* description length is not a multiple of 3 contributes 0.
C9_DescRuleCeiling ==
    Scored =>
        \A k \in 1..Len(receipt.Items) :
            LET item  == receipt.Items[k]
                price == ParseFloat(item.Price)
            IN  /\ (Len(item.ShortDescription) % 3 # 0) => result.rules.desc[k] = 0
                /\ (Len(item.ShortDescription) % 3 = 0 /\ price >= 0) =>
                       result.rules.desc[k] =
                           IF price % 1000 # 0 THEN (price \div 1000) + 1
                           ELSE price \div 1000

\* the integer the last two characters of the date parse to, the hour the
\* first two characters of the time parse to, and the item count
DayOf(r) == Atoi(SubSeq(r.PurchaseDate, Len(r.PurchaseDate) - 1, Len(r.PurchaseDate)))

HourOf(r) == Atoi(SubSeq(r.PurchaseTime, 1, 2))

C1_OnlyValidReceiptsStored ==
    /\ \A id \in DOMAIN db : Failures(db[id].receipt) = <<>>
    /\ (last.op = "process" /\ last.status # 200) => last.uuid = 0

\* C2: a lookup of an identifier a successful submission returned answers
\* 200 with exactly the points computed at submission time, whatever was
\* submitted or looked up in between; a lookup of any other identifier
\* answers 400.
C2_LookupReturnsIssuedPoints ==
    /\ \A e \in issued : e[1] \in DOMAIN db /\ db[e[1]].Points = e[2]
    /\ last.op = "points" =>
           IF \E e \in issued : e[1] = last.uuid
           THEN /\ last.status = 200
                /\ \A e \in issued : e[1] = last.uuid => last.points = e[2]
           ELSE last.status = 400

\* a lookup that answered non-zero points after every identifier was issued
C2_Witness ==
    /\ last.op = "points" /\ last.status = 200 /\ last.points > 0
    /\ Cardinality(issued) = MaxIds
    /\ \E e \in issued : e[2] # last.points

\* C3: a submission of a decoded receipt ends either accepted (200, stored)
\* or rejected (400) with a message holding an entry for every failing
\* check among date format, time format and total mismatch.
C3_AcceptedOrRejectedWithAllFailures ==
    (last.op = "process" /\ last.body.decoded) =>
        \/ last.status = 200 /\ last.uuid \in DOMAIN db
        \/ /\ last.status = 400
           /\ \A k \in 1..Len(Failures(last.body)) :
                  \E m \in 1..Len(last.msg) : last.msg[m] = Failures(last.body)[k]

\* C4: a receipt with an empty retailer is rejected and never stored.
C4_EmptyRetailerRejected ==
    /\ \A id \in DOMAIN db : db[id].receipt.Retailer # <<>>
    /\ (last.op = "process" /\ last.body.decoded /\ last.body.Retailer = <<>>) =>
           last.status = 400

\* C6: a receipt with a non-empty retailer and a well-formed date and time
\* is accepted exactly when the total minus every item price is 0, and is
\* otherwise rejected with the total-mismatch failure.
C6_AcceptedIffTotalMatches ==
    (/\ last.op = "process" /\ last.body.decoded
     /\ last.body.Retailer # <<>>
     /\ isdate(last.body.PurchaseDate) /\ istime(last.body.PurchaseTime)) =>
        IF Remainder(last.body) = 0
        THEN last.status = 200
        ELSE /\ last.status = 400
             /\ \E m \in 1..Len(last.msg) :
                    last.msg[m] = "total Price does not match item prices "

(***************************************************************************)
(* SpecConc: requests served at the same time.  The server runs every       *)
(* request's handler on a goroutine of its own, and db is a plain map with  *)
(* no lock: an assignment or a read of it takes time, during which the      *)
(* other handlers keep running.                                             *)
(***************************************************************************)
NumHandlers == 2

Handlers == 1..NumHandlers

\* an accepted receipt and a body the decoder refuses
ConcBodies ==
    {[decoded |-> TRUE, Retailer |-> <<"M", "&", "M", " ", "C", "o">>, PurchaseDate |-> <<"2", "0", "2", "2", "-", "0", "1", "-", "0", "1">>,
      PurchaseTime |-> <<"1", "4", ":", "3", "0">>, Items |-> <<>>, Total |-> <<"x">>],
     Undecodable}

NoReq == [uuid |-> 0, entry |-> Stored(Undecodable, NoResult)]

InitConc ==
    /\ db = <<>> /\ answered = {} /\ crashed = FALSE
    /\ pc = [h \in Handlers |-> "idle"]
    /\ req = [h \in Handlers |-> NoReq]
    /\ raced = [h \in Handlers |-> FALSE]
    /\ issued = {} /\ last = NoLast /\ receipt = Undecodable /\ result = NoResult

\* identifiers already stored or about to be
Taken == DOMAIN db \cup {req[h].uuid : h \in Handlers}

\* POST /receipts/process up to `uuid := shortuuid.New()`
BeginProcess(h, body) ==
    \E r \in {ReadReceipt(body)} :
        /\ ~crashed /\ pc[h] = "idle"
        /\ IF r.outcome = "return" /\ r.err = "nil"
           THEN \E uuid \in NewUuids(Taken) :
                    /\ pc' = [pc EXCEPT ![h] = "store"]
                    /\ req' = [req EXCEPT ![h] = [uuid |-> uuid, entry |-> Stored(body, r)]]
           ELSE UNCHANGED <<pc, req>>
        /\ UNCHANGED <<db, issued, last, receipt, result, raced, crashed, answered>>

\* `db[uuid] = receipt` begins: the handler is inside the map assignment
StartAssign(h) ==
    /\ ~crashed /\ pc[h] = "store"
    /\ pc' = [pc EXCEPT ![h] = "storing"]
    /\ raced' = [g \in Handlers |->
                    IF g = h THEN \E o \in Handlers \ {h} : pc[o] \in {"storing", "reading"}
                    ELSE raced[g] \/ pc[g] \in {"storing", "reading"}]
    /\ UNCHANGED <<db, issued, last, receipt, result, req, crashed, answered>>

\* `db[uuid] = receipt` ends and the 200 response is written.  An
\* assignment that overlapped another access is a data race: the entry may
\* be stored, the entry may be lost, or the runtime may stop the process
\* ("fatal error: concurrent map writes").
FinishAssign(h) ==
    /\ ~crashed /\ pc[h] = "storing"
    /\ \/ /\ db' = db @@ (req[h].uuid :> req[h].entry)
          /\ answered' = answered \cup {req[h].uuid}
          /\ UNCHANGED crashed
       \/ /\ raced[h]
          /\ answered' = answered \cup {req[h].uuid}
          /\ UNCHANGED <<db, crashed>>
       \/ /\ raced[h]
          /\ crashed' = TRUE
          /\ UNCHANGED <<db, answered>>
    /\ pc' = [pc EXCEPT ![h] = "idle"]
    /\ req' = [req EXCEPT ![h] = NoReq]
    /\ raced' = [raced EXCEPT ![h] = FALSE]
    /\ UNCHANGED <<issued, last, receipt, result>>

\* GET /receipts/:id/points up to `db[uuid]`, GET /db up to the encoding of db
BeginLookup(h) ==
    /\ ~crashed /\ pc[h] = "idle"
    /\ pc' = [pc EXCEPT ![h] = "read"]
    /\ UNCHANGED <<db, issued, last, receipt, result, req, raced, crashed, answered>>

\* the read of db begins
StartRead(h) ==
    /\ ~crashed /\ pc[h] = "read"
    /\ pc' = [pc EXCEPT ![h] = "reading"]
    /\ raced' = [g \in Handlers |->
                    IF g = h THEN \E o \in Handlers \ {h} : pc[o] = "storing"
                    ELSE raced[g] \/ pc[g] = "storing"]
    /\ UNCHANGED <<db, issued, last, receipt, result, req, crashed, answered>>

\* the read of db ends and the response is written; a read that overlapped
\* an assignment may stop the process ("concurrent map read and map write")
FinishRead(h) ==
    /\ ~crashed /\ pc[h] = "reading"
    /\ \/ UNCHANGED crashed
       \/ raced[h] /\ crashed' = TRUE
    /\ pc' = [pc EXCEPT ![h] = "idle"]
    /\ raced' = [raced EXCEPT ![h] = FALSE]
    /\ UNCHANGED <<db, issued, last, receipt, result, req, answered>>

NextConc ==
    \E h \in Handlers :
        \/ \E body \in ConcBodies : BeginProcess(h, body)
        \/ StartAssign(h)
        \/ FinishAssign(h)
        \/ BeginLookup(h)
        \/ StartRead(h)
        \/ FinishRead(h)

SpecConc == InitConc /\ [][NextConc]_vars

\* C8: no handler writes the table while another handler reads or writes
\* it, and the entry of every submission answered 200 is in the table.
C8_TableWritesExclusive ==
    /\ \A h \in Handlers : \A g \in Handlers \ {h} :
           ~(pc[h] = "storing" /\ pc[g] \in {"storing", "reading"})
    /\ (~crashed) => \A u \in answered : u \in DOMAIN db

====
